---- MODULE Spec2Model ----
(***************************************************************************)
(* Model of compile_and_execute_template.py: one invocation of main(),     *)
(* from argument parsing to process exit.  Strings that the program takes  *)
(* apart or builds (paths, stack names, change-set names) are sequences of *)
(* one-character strings; the file system, the YAML documents, the         *)
(* parameter template and the answers of the CloudFormation service are    *)
(* the inputs.                                                             *)
(***************************************************************************)
EXTENDS Integers, Sequences, FiniteSets, TLC

VARIABLES
    argv,           \* the parsed command line: [opt, e, t, a]
    fs,             \* the paths that are regular files
    pc,             \* position of the single thread of control
    exitCode,       \* -1 while running, then the process exit code
    init,           \* the dict returned by init_variables
    common_values,  \* merge_vars_file: yaml.safe_load of cf_vars/common.yml
    custom_values,  \* merge_vars_file: yaml.safe_load of the values file
    values,         \* merge_vars_file: what it returned
    filled_json,    \* main: the list returned by fill_json
    exists,         \* deploy_stack: what stack_exists returned
    change_set_name, \* create_change_set: the name it generated
    calls,          \* the requests sent to the remote service, in order
    written,        \* the files opened for writing, with their content
    out             \* what was printed, in order

vars == <<argv, fs, pc, exitCode, init, common_values,
          custom_values, values, filled_json, exists, change_set_name, calls,
          written, out>>

----------------------------------------------------------------------------
(* Bounds of the model *)

NumKeys == 2
NumVals == 2
MaxItems == 1

(* Program constants *)

SuffixSize == 6
ExitError == 2
ExitOk == 0

----------------------------------------------------------------------------
(* Strings *)

DotYaml == <<".", "y", "a", "m", "l">>
DotYml == <<".", "y", "m", "l">>
DotJson == <<".", "j", "s", "o", "n">>
CfVarsDir == <<"c", "f", "_", "v", "a", "r", "s", "/">>

COMMON_FILE_PATH == CfVarsDir \o <<"c", "o", "m", "m", "o", "n">> \o DotYml

\* str.split('/')[-1]: the text after the last '/'
RECURSIVE LastSegment(_)
LastSegment(s) ==
    IF \E i \in 1..Len(s) : s[i] = "/"
    THEN LastSegment(Tail(s))
    ELSE s

\* str.replace(old, ''): every non-overlapping occurrence, left to right
RECURSIVE Remove(_, _)
Remove(s, old) ==
    IF old = <<>> \/ Len(s) < Len(old) THEN s
    ELSE IF SubSeq(s, 1, Len(old)) = old
         THEN Remove(SubSeq(s, Len(old) + 1, Len(s)), old)
         ELSE <<Head(s)>> \o Remove(Tail(s), old)

DigitChar == <<"1", "2", "3", "4", "5", "6", "7", "8", "9">>

\* str() of a small positive integer, as jinja2 prints it
Str(n) == IF n \in 1..9 THEN <<DigitChar[n]>> ELSE <<"n">>

----------------------------------------------------------------------------
(* Inputs *)

Environments == { <<>>, <<"p", "r", "o", "d">> }

Templates ==
    { <<>>,
      <<"t", "/", "v", "p", "c">> \o DotYaml,
      <<"v", "p", "c">> \o DotYml,
      <<"x">> \o DotYml \o <<".", "d", "/", "x">> \o DotYml }

ActionArgs == { "", "fill", "deploy", "destroy" }

\* class Actions
Actions == { "fill", "deploy" }

GetoptOutcomes == { "ok", "help", "GetoptError" }

KeyName == <<"k1", "k2", "k3", "k4">>
Keys == { KeyName[i] : i \in 1..NumKeys }
Vals == 1..NumVals

Mappings == UNION { [D -> Vals] : D \in SUBSET Keys }

NoDoc == [kind |-> "unset", m |-> <<>>]

\* what yaml.safe_load returns: a mapping, None for an empty document,
\* or it raises
Documents ==
    { [kind |-> "dict", m |-> m] : m \in Mappings }
        \cup { [kind |-> "None", m |-> <<>>], [kind |-> "YAMLError", m |-> <<>>] }

\* one element of the parameter template: a dict literal whose value is the
\* placeholder {{ var }}; form says which fields are written, in which order
ItemTemplates == [name : {<<"P">>}, var : Keys, form : {"kv", "vk", "k"}]

SeqsUpTo(S, n) == UNION { [1..k -> S] : k \in 0..n }

ParameterTemplates ==
    { [kind |-> "list", items |-> s] : s \in SeqsUpTo(ItemTemplates, MaxItems) }
        \cup { [kind |-> "SyntaxError", items |-> <<>>] }

\* a sample of string.ascii_uppercase + string.digits
Chars == { "A", "9" }

----------------------------------------------------------------------------
(* Results of functions that either return or raise *)

\* at: the function whose except clause reports the exception
Return(v) == [ok |-> TRUE, val |-> v, err |-> "", at |-> ""]
Raise(e) == [ok |-> FALSE, val |-> <<>>, err |-> e, at |-> ""]

----------------------------------------------------------------------------
(* merge_vars_file *)

\* dict.update gone wrong: a key d already has keeps d's value
Update_keeps_existing(d, other) ==
    [k \in (DOMAIN d) \cup (DOMAIN other) |->
        IF k \in DOMAIN d THEN d[k] ELSE other[k]]

\* dict.update gone wrong: the result is other alone
Update_replaces(d, other) == other

\* dict.update: d with every key of other set to other's value
Update(d, other) ==
    [k \in (DOMAIN d) \cup (DOMAIN other) |->
        IF k \in DOMAIN other THEN other[k] ELSE d[k]]

\* merge_vars_file gone wrong: a missing or unreadable shared defaults file
\* counts as an empty mapping
merge_vars_file_defaults(files, valuesFile, common, custom) ==
    IF valuesFile \notin files THEN Raise("FileNotFoundError")
    ELSE IF custom.kind # "dict" THEN Raise("YAMLError")
    ELSE IF COMMON_FILE_PATH \notin files \/ common.kind # "dict"
         THEN Return(custom.m)
    ELSE Return(Update(custom.m, common.m))

\* merge_vars_file gone wrong: an empty document counts as an empty mapping
merge_vars_file_or_empty(files, valuesFile, common, custom) ==
    IF COMMON_FILE_PATH \notin files \/ valuesFile \notin files
    THEN Raise("FileNotFoundError")
    ELSE IF common.kind = "YAMLError" \/ custom.kind = "YAMLError"
         THEN Raise("YAMLError")
    ELSE Return(Update(custom.m, common.m))

\* files: the regular files; common, custom: what yaml.safe_load gives for
\* cf_vars/common.yml and for the values file
merge_vars_file(files, valuesFile, common, custom) ==
    IF COMMON_FILE_PATH \notin files THEN Raise("FileNotFoundError")
    ELSE IF common.kind = "YAMLError" THEN Raise("YAMLError")
    ELSE IF valuesFile \notin files THEN Raise("FileNotFoundError")
    ELSE IF custom.kind = "YAMLError" THEN Raise("YAMLError")
    ELSE IF custom.kind = "None" THEN Raise("AttributeError")
    ELSE IF common.kind = "None" THEN Raise("TypeError")
    ELSE Return(Update(custom.m, common.m))

----------------------------------------------------------------------------
(* fill_json *)

\* jinja2 prints a defined variable with str() and an undefined one as ''
RenderVar(vals, var) == IF var \in DOMAIN vals THEN Str(vals[var]) ELSE <<>>

\* the dict one element of the rendered literal evaluates to, as its
\* (field, value) pairs in insertion order
RenderItem(vals, it) ==
    LET k == <<"ParameterKey", it.name>>
        v == <<"ParameterValue", RenderVar(vals, it.var)>>
    IN  CASE it.form = "kv" -> <<k, v>>
          [] it.form = "vk" -> <<v, k>>
          [] OTHER -> <<k>>

\* list(eval(jinja2.Template(parameter_file).render(values)))
RenderList(tpl, vals) ==
    IF tpl.kind = "SyntaxError" THEN Raise("SyntaxError")
    ELSE Return([i \in 1..Len(tpl.items) |-> RenderItem(vals, tpl.items[i])])

\* the whole of fill_json; a failure inside merge_vars_file is reported by
\* merge_vars_file itself
fill_json(files, ini, tpl, common, custom) ==
    IF ini.jsonFile \notin files
    THEN [Raise("FileNotFoundError") EXCEPT !.at = "fill_json"]
    ELSE LET merged == merge_vars_file(files, ini.valuesFile, common, custom)
         IN  IF ~merged.ok
             THEN [merged EXCEPT !.at = "merge_vars_file"]
             ELSE LET output == RenderList(tpl, merged.val)
                  IN  IF output.ok THEN output
                      ELSE [output EXCEPT !.at = "fill_json"]

----------------------------------------------------------------------------
(* save_to_file *)

FieldRank(f) ==
    CASE f = "ParameterKey" -> 1
      [] f = "ParameterValue" -> 2
      [] OTHER -> 3

\* the pairs of one dict in the order sort_keys=True prints them
RECURSIVE SortKeys(_)
SortKeys(d) ==
    IF d = <<>> THEN <<>>
    ELSE LET i == CHOOSE i \in 1..Len(d) :
                      \A j \in 1..Len(d) : FieldRank(d[i][1]) <= FieldRank(d[j][1])
             rest == [j \in 1..(Len(d) - 1) |-> IF j < i THEN d[j] ELSE d[j + 1]]
         IN  <<d[i]>> \o SortKeys(rest)

\* json.dumps(content, sort_keys=True, indent=4): the list in its order,
\* every dict with its keys sorted
json_dumps(content) == [i \in 1..Len(content) |-> SortKeys(content[i])]

----------------------------------------------------------------------------
(* init_variables *)

NoInit ==
    [set |-> FALSE, valuesFile |-> <<>>, templateFileName |-> <<>>,
     jsonFile |-> <<>>, stackName |-> <<>>, stackBody |-> <<>>]

ValuesFile(env) == CfVarsDir \o env \o DotYml

TFileName(t) == LastSegment(t)

\* the path to the template, with its trailing /
TPath(t) == Remove(t, TFileName(t))

\* the template name without extension
CleanName(t) == Remove(Remove(TFileName(t), DotYaml), DotYml)

JsonFile(t) == TPath(t) \o CleanName(t) \o DotJson

StackName(env, t) ==
    <<"c", "t", "-">> \o env \o <<"-", "b", "a", "s", "e", "-">>
        \o CleanName(t) \o <<"-", "s", "t", "a", "c", "k">>

\* what open(t).read() gives: the text of the file at t
BodyOf(t) == <<"body of">> \o t

\* check_file: True, or the process exits
check_file(files, file) == file \in files

\* the dict init_variables returns, or the process exits
init_variables(files, env, t) ==
    IF ~check_file(files, ValuesFile(env)) THEN Raise("check_file")
    ELSE IF ~check_file(files, t) THEN Raise("check_file")
    ELSE IF ~check_file(files, JsonFile(t)) THEN Raise("check_file")
    ELSE IF t \notin files THEN Raise("FileNotFoundError")
    ELSE Return([set |-> TRUE,
                 valuesFile |-> ValuesFile(env),
                 templateFileName |-> TFileName(t),
                 jsonFile |-> JsonFile(t),
                 stackName |-> StackName(env, t),
                 stackBody |-> BodyOf(t)])

----------------------------------------------------------------------------
(* The remote service *)

\* id_generator gone wrong: range(size - 1)
id_generator_short(size, chars) == [1..(size - 1) -> chars]

\* id_generator: size characters, each any of chars
id_generator(size, chars) == [1..size -> chars]

Request(op, sn, csn, body, parameters, result) ==
    [op |-> op, StackName |-> sn, ChangeSetName |-> csn,
     TemplateBody |-> body, Parameters |-> parameters, result |-> result]

MutatingOps == { "create_stack", "create_change_set", "execute_change_set" }
WaitOps == { "wait stack_create_complete", "wait change_set_create_complete" }

\* the requests of calls whose op is in ops
Sent(ops) == { i \in 1..Len(calls) : calls[i].op \in ops }

----------------------------------------------------------------------------
(* The invocation *)

Init ==
    /\ argv \in [opt : GetoptOutcomes, e : Environments, t : Templates,
                 a : ActionArgs]
    /\ fs \in SUBSET { ValuesFile(argv.e), argv.t, JsonFile(argv.t),
                       COMMON_FILE_PATH }
    /\ pc = "main"
    /\ exitCode = -1
    /\ init = NoInit
    /\ common_values = NoDoc
    /\ custom_values = NoDoc
    /\ values = NoDoc
    /\ filled_json = [set |-> FALSE, list |-> <<>>]
    /\ exists = "unknown"
    /\ change_set_name = <<>>
    /\ calls = <<>>
    /\ written = <<>>
    /\ out = <<>>

\* sys.exit gone wrong: the exit code is the number of errors, 1
Exit_one(code, msg) ==
    /\ pc' = "exit"
    /\ exitCode' = 1
    /\ out' = Append(out, msg)

\* sys.exit(code), after printing msg
Exit(code, msg) ==
    /\ pc' = "exit"
    /\ exitCode' = code
    /\ out' = Append(out, msg)

\* main gone wrong: init_variables is called before the arguments are looked at
main_checks_late ==
    /\ pc = "main"
    /\ IF argv.opt # "ok" THEN Exit(ExitError, <<"help", <<>>>>)
       ELSE /\ pc' = "init_variables"
            /\ UNCHANGED <<exitCode, out>>
    /\ UNCHANGED <<argv, fs, init, common_values, custom_values, values,
                   filled_json, exists, change_set_name, calls, written>>

\* main, up to the call of init_variables
main ==
    /\ pc = "main"
    /\ IF argv.opt = "help" THEN Exit(ExitError, <<"help", <<>>>>)
       ELSE IF argv.opt = "GetoptError"
            THEN Exit(ExitError, <<"An error has occurred", <<>>>>)
       ELSE IF argv.a = "" \/ argv.a \notin Actions \/ argv.e = <<>> \/ argv.t = <<>>
            THEN Exit(ExitError, <<"An error has occurred", <<>>>>)
       ELSE /\ pc' = "init_variables"
            /\ UNCHANGED <<exitCode, out>>
    /\ UNCHANGED <<argv, fs, init, common_values, custom_values, values,
                   filled_json, exists, change_set_name, calls, written>>

InitVariables ==
    /\ pc = "init_variables"
    /\ LET r == init_variables(fs, argv.e, argv.t)
       IN  IF r.ok
           THEN /\ init' = r.val
                /\ pc' = "fill_json"
                /\ UNCHANGED <<exitCode, out>>
           ELSE /\ Exit(ExitError, <<r.err, <<>>>>)
                /\ UNCHANGED init
    /\ UNCHANGED <<argv, fs, common_values, custom_values, values,
                   filled_json, exists, change_set_name, calls, written>>

\* fill_json gone wrong: a failed merge or render gives an empty list
FillJson_swallows ==
    /\ pc = "fill_json"
    /\ \E tpl \in ParameterTemplates, common \in Documents, custom \in Documents :
          LET r == fill_json(fs, init, tpl, common, custom)
          IN  /\ filled_json' = [set |-> r.ok, list |-> IF r.ok THEN r.val ELSE <<>>]
              /\ pc' = IF argv.a = "deploy" THEN "deploy_stack" ELSE "save_to_file"
              /\ out' = Append(out, IF r.ok THEN <<"values", <<>>>>
                                    ELSE <<r.at, <<r.err>>>>)
              /\ UNCHANGED exitCode
    /\ UNCHANGED <<argv, fs, init, common_values, custom_values, values,
                   exists, change_set_name, calls, written>>

\* fill_json reads the parameter template and the two values files
FillJson ==
    /\ pc = "fill_json"
    /\ \E tpl \in ParameterTemplates, common \in Documents, custom \in Documents :
          LET r == fill_json(fs, init, tpl, common, custom)
          IN  IF r.ok
              THEN /\ filled_json' = [set |-> TRUE, list |-> r.val]
                   /\ pc' = IF argv.a = "deploy" THEN "deploy_stack"
                            ELSE "save_to_file"
                   /\ out' = Append(out, <<"values", <<>>>>)
                   /\ UNCHANGED exitCode
              ELSE /\ Exit(ExitError, <<r.at, <<r.err>>>>)
                   /\ UNCHANGED filled_json
    /\ UNCHANGED <<argv, fs, init, common_values, custom_values, values,
                   exists, change_set_name, calls, written>>

\* file_name gone wrong: the extension is left out
file_name_bare(name, extension) == name

\* save_to_file: file_name = f"{name}.{extension}"
file_name(name, extension) == name \o <<".">> \o extension

\* save_to_file, then main returns
SaveToFile ==
    /\ pc = "save_to_file"
    /\ LET fname == file_name(init.stackName, <<"j", "s", "o", "n">>)
       IN  \E io \in { "ok", "open fails", "write fails" } :
              CASE io = "ok" ->
                     /\ written' = Append(written,
                            [name |-> fname,
                             content |-> <<json_dumps(filled_json.list)>>])
                     /\ pc' = "exit"
                     /\ exitCode' = ExitOk
                     /\ UNCHANGED out
                [] io = "open fails" ->
                     /\ Exit(ExitError, <<"save_to_file", <<"OSError">>>>)
                     /\ UNCHANGED written
                [] OTHER ->
                     /\ written' = Append(written,
                            [name |-> fname, content |-> <<>>])
                     /\ Exit(ExitError, <<"save_to_file", <<"OSError">>>>)
    /\ UNCHANGED <<argv, fs, init, common_values, custom_values, values,
                   filled_json, exists, change_set_name, calls>>

\* how describe_stacks can end.  "no client": boto3.client raises before any
\* request is sent; the ClientError answers are the service's error responses;
\* "EndpointConnectionError" is a botocore error that is not a ClientError
ClientErrors == { "ClientError: does not exist", "ClientError: Throttling",
                  "ClientError: AccessDenied" }
DescribeAnswers == { "ok", "EndpointConnectionError" } \cup ClientErrors

\* stack_exists gone wrong: every exception is caught and means absent
stack_exists_catches_all(answer) ==
    IF answer = "ok" THEN Return(TRUE) ELSE Return(FALSE)

\* stack_exists: True, False, or the exception passes to the caller
stack_exists(answer) ==
    IF answer = "ok" THEN Return(TRUE)
    ELSE IF answer \in ClientErrors THEN Return(FALSE)
    ELSE Raise(answer)

\* deploy_stack gone wrong: the stack is created whatever the probe said
deploy_stack_creates(found) == "create_stack"

\* deploy_stack: the function it calls once stack_exists has returned
deploy_stack(found) == IF found THEN "create_change_set" ELSE "create_stack"

\* deploy_stack up to the return of stack_exists
StackExists ==
    /\ pc = "deploy_stack"
    /\ \E answer \in DescribeAnswers \cup { "no client" } :
          LET r == stack_exists(answer)
          IN  /\ calls' = IF answer = "no client" THEN calls
                          ELSE Append(calls,
                                   Request("describe_stacks", init.stackName,
                                           <<>>, <<>>, <<>>, answer))
              /\ IF r.ok
                 THEN /\ exists' = IF r.val THEN "present" ELSE "absent"
                      /\ pc' = deploy_stack(r.val)
                      /\ out' = out \o
                                   << <<IF r.val THEN "stack found."
                                        ELSE "stack not found.", init.stackName>>,
                                      <<IF deploy_stack(r.val) = "create_change_set"
                                        THEN "Creating change set for stack"
                                        ELSE "creating it...", init.stackName>> >>
                      /\ UNCHANGED exitCode
                 ELSE /\ Exit(ExitError, <<"deploy_stack", <<r.err>>>>)
                      /\ UNCHANGED exists
    /\ UNCHANGED <<argv, fs, init, common_values, custom_values, values,
                   filled_json, change_set_name, written>>

\* create_change_set gone wrong: the wait is started without blocking and
\* the request is sent once more while it is outstanding
CreateChangeSet_async ==
    /\ pc = "create_change_set"
    /\ \E random_id \in id_generator(SuffixSize, Chars) :
          LET name == init.stackName \o <<"-">> \o random_id
              request == Request("create_change_set", init.stackName, name,
                                 init.stackBody, filled_json.list, "ok")
              wait == Request("wait change_set_create_complete",
                              init.stackName, name, <<>>, <<>>, "pending")
          IN  /\ change_set_name' = name
              /\ calls' = calls \o <<request, wait, request>>
              /\ pc' = "exit"
              /\ exitCode' = ExitOk
              /\ UNCHANGED out
    /\ UNCHANGED <<argv, fs, init, common_values, custom_values, values,
                   filled_json, exists, written>>

\* create_change_set up to the call of waiter.wait
CreateChangeSet ==
    /\ pc = "create_change_set"
    /\ \E random_id \in id_generator(SuffixSize, Chars),
          answer \in { "ok", "ClientError" } :
          LET name == init.stackName \o <<"-">> \o random_id
              request == Request("create_change_set", init.stackName, name,
                                 init.stackBody, filled_json.list, answer)
              wait == Request("wait change_set_create_complete",
                              init.stackName, name, <<>>, <<>>, "pending")
          IN  /\ change_set_name' = name
              /\ IF answer = "ok"
                 THEN /\ calls' = calls \o <<request, wait>>
                      /\ pc' = "change_set_waiting"
                      /\ UNCHANGED <<exitCode, out>>
                 ELSE /\ calls' = Append(calls, request)
                      /\ Exit(ExitError, <<"create_change_set", <<answer>>>>)
    /\ UNCHANGED <<argv, fs, init, common_values, custom_values, values,
                   filled_json, exists, written>>

\* the wait gone wrong: once the change set is complete it is executed
ChangeSetWaitReturns_executes ==
    /\ pc = "change_set_waiting"
    /\ calls' = [calls EXCEPT ![Len(calls)].result = "ok"] \o
                 <<Request("execute_change_set", init.stackName,
                           change_set_name, <<>>, <<>>, "ok")>>
    /\ out' = Append(out, <<"Change set created!", change_set_name>>)
    /\ pc' = "exit"
    /\ exitCode' = ExitOk
    /\ UNCHANGED <<argv, fs, init, common_values, custom_values, values,
                   filled_json, exists, change_set_name, written>>

\* the wait gone wrong: after a failed wait the whole change set is tried again
ChangeSetWaitReturns_loops ==
    /\ pc = "change_set_waiting"
    /\ \E answer \in { "ok", "WaiterError" } :
          IF answer = "ok"
          THEN /\ calls' = [calls EXCEPT ![Len(calls)].result = answer]
               /\ out' = Append(out, <<"Change set created!", change_set_name>>)
               /\ pc' = "exit"
               /\ exitCode' = ExitOk
          ELSE /\ calls' = SubSeq(calls, 1, Len(calls) - 2)
               /\ pc' = "create_change_set"
               /\ UNCHANGED <<exitCode, out>>
    /\ UNCHANGED <<argv, fs, init, common_values, custom_values, values,
                   filled_json, exists, change_set_name, written>>

\* waiter.wait returns or raises; on return create_change_set, deploy_stack
\* and main return
ChangeSetWaitReturns ==
    /\ pc = "change_set_waiting"
    /\ \E answer \in { "ok", "WaiterError" } :
          /\ calls' = [calls EXCEPT ![Len(calls)].result = answer]
          /\ IF answer = "ok"
             THEN /\ out' = Append(out, <<"Change set created!", change_set_name>>)
                  /\ pc' = "exit"
                  /\ exitCode' = ExitOk
             ELSE Exit(ExitError, <<"create_change_set", <<answer>>>>)
    /\ UNCHANGED <<argv, fs, init, common_values, custom_values, values,
                   filled_json, exists, change_set_name, written>>

\* create_stack gone wrong: success is reported without waiting
CreateStack_no_wait ==
    /\ pc = "create_stack"
    /\ calls' = Append(calls,
                    Request("create_stack", init.stackName, <<>>,
                            init.stackBody, filled_json.list, "ok"))
    /\ out' = Append(out, <<"Stack created!", init.stackName>>)
    /\ pc' = "exit"
    /\ exitCode' = ExitOk
    /\ UNCHANGED <<argv, fs, init, common_values, custom_values, values,
                   filled_json, exists, change_set_name, written>>

\* create_stack up to the call of waiter.wait
CreateStack ==
    /\ pc = "create_stack"
    /\ \E answer \in { "ok", "ClientError" } :
          LET request == Request("create_stack", init.stackName, <<>>,
                                 init.stackBody, filled_json.list, answer)
              wait == Request("wait stack_create_complete", init.stackName,
                              <<>>, <<>>, <<>>, "pending")
          IN  IF answer = "ok"
              THEN /\ calls' = calls \o <<request, wait>>
                   /\ pc' = "stack_waiting"
                   /\ UNCHANGED <<exitCode, out>>
              ELSE /\ calls' = Append(calls, request)
                   /\ Exit(ExitError, <<"create_stack", <<answer>>>>)
    /\ UNCHANGED <<argv, fs, init, common_values, custom_values, values,
                   filled_json, exists, change_set_name, written>>

\* the wait gone wrong: after a failed wait the stack is requested again
StackWaitReturns_retries ==
    /\ pc = "stack_waiting"
    /\ \E answer \in { "ok", "WaiterError" } :
          /\ calls' = [calls EXCEPT ![Len(calls)].result = answer]
          /\ IF answer = "ok"
             THEN /\ out' = Append(out, <<"Stack created!", init.stackName>>)
                  /\ pc' = "exit"
                  /\ exitCode' = ExitOk
             ELSE /\ pc' = IF Len(calls) < 6 THEN "create_stack" ELSE "exit"
                  /\ exitCode' = IF Len(calls) < 6 THEN exitCode ELSE ExitError
                  /\ UNCHANGED out
    /\ UNCHANGED <<argv, fs, init, common_values, custom_values, values,
                   filled_json, exists, change_set_name, written>>

\* waiter.wait returns or raises; on return create_stack, deploy_stack and
\* main return
StackWaitReturns ==
    /\ pc = "stack_waiting"
    /\ \E answer \in { "ok", "WaiterError" } :
          /\ calls' = [calls EXCEPT ![Len(calls)].result = answer]
          /\ IF answer = "ok"
             THEN /\ out' = Append(out, <<"Stack created!", init.stackName>>)
                  /\ pc' = "exit"
                  /\ exitCode' = ExitOk
             ELSE Exit(ExitError, <<"create_stack", <<answer>>>>)
    /\ UNCHANGED <<argv, fs, init, common_values, custom_values, values,
                   filled_json, exists, change_set_name, written>>

Next ==
    \/ main
    \/ InitVariables
    \/ FillJson
    \/ SaveToFile
    \/ StackExists
    \/ CreateChangeSet
    \/ ChangeSetWaitReturns
    \/ CreateStack
    \/ StackWaitReturns

Spec == Init /\ [][Next]_vars

\* every remote call and every wait returns: a step that can be taken is taken
SpecFair == Spec /\ WF_vars(Next)

----------------------------------------------------------------------------
(* merge_vars_file on its own: the two documents are the inputs *)

Prod == <<"p", "r", "o", "d">>
Vpc == <<"t", "/", "v", "p", "c">> \o DotYaml

InitMerge ==
    /\ argv = [opt |-> "ok", e |-> Prod, t |-> Vpc, a |-> "fill"]
    /\ fs \in { {ValuesFile(Prod), Vpc, JsonFile(Vpc)} \cup c :
                    c \in SUBSET {COMMON_FILE_PATH} }
    /\ pc = "merge_vars_file"
    /\ exitCode = -1
    /\ init = init_variables(fs, Prod, Vpc).val
    /\ common_values \in Documents
    /\ custom_values \in Documents
    /\ values = NoDoc
    /\ filled_json = [set |-> FALSE, list |-> <<>>]
    /\ exists = "unknown"
    /\ change_set_name = <<>>
    /\ calls = <<>>
    /\ written = <<>>
    /\ out = <<>>

MergeVarsFile ==
    /\ pc = "merge_vars_file"
    /\ LET r == merge_vars_file(fs, init.valuesFile, common_values, custom_values)
       IN  IF r.ok
           THEN /\ values' = [kind |-> "dict", m |-> r.val]
                /\ pc' = "merged"
                /\ UNCHANGED <<exitCode, out>>
           ELSE /\ Exit(ExitError, <<"merge_vars_file", <<r.err>>>>)
                /\ UNCHANGED values
    /\ UNCHANGED <<argv, fs, init, common_values, custom_values, filled_json,
                   exists, change_set_name, calls, written>>

NextMerge == MergeVarsFile

SpecMerge == InitMerge /\ [][NextMerge]_vars

----------------------------------------------------------------------------
(* What a state shows of the run so far *)

Printed(tags) == { i \in 1..Len(out) : out[i][1] \in tags }

Done == pc = "exit" /\ exitCode = ExitOk
Failed == pc = "exit" /\ exitCode = ExitError

\* create_change_set has been called: control is in it, or it has printed
InChangeSetPath ==
    \/ pc \in { "create_change_set", "change_set_waiting" }
    \/ Printed({ "create_change_set", "Change set created!" }) # {}

\* create_stack has been called: control is in it, or it has printed
InStackPath ==
    \/ pc \in { "create_stack", "stack_waiting" }
    \/ Printed({ "create_stack", "Stack created!" }) # {}

\* describe_stacks failed with a service error other than not-found
DescribeFailedOtherwise ==
    \E i \in Sent({ "describe_stacks" }) :
        calls[i].result \in ClientErrors \ { "ClientError: does not exist" }

\* a file the invocation needs is not there
MissingFile ==
    \/ ValuesFile(argv.e) \notin fs
    \/ COMMON_FILE_PATH \notin fs
    \/ argv.t \notin fs
    \/ JsonFile(argv.t) \notin fs

\* yaml.safe_load raised on one of the values files
Unparsable ==
    \E i \in 1..Len(out) : out[i] = <<"merge_vars_file", <<"YAMLError">>>>

\* the requests that failed
FailedRequests ==
    { i \in Sent(MutatingOps \cup WaitOps) : calls[i].result \notin { "ok", "pending" } }

\* the (field, value) pairs of a dict, whatever their order
Pairs(d) == { d[i] : i \in 1..Len(d) }

----------------------------------------------------------------------------
(* Claims *)

\* C1: in an apply run whose probe has returned, a stack reported present
\* leads into create_change_set and never into create_stack, a stack reported
\* absent into create_stack and never into create_change_set; one of the two
\* is entered, never both
C1_OnePath ==
    (argv.a = "deploy" /\ exists # "unknown") =>
        /\ exists = "present" => (InChangeSetPath /\ ~InStackPath)
        /\ exists = "absent" => (InStackPath /\ ~InChangeSetPath)
        /\ Sent({ "create_stack" }) # {} => exists = "absent"
        /\ Sent({ "create_change_set" }) # {} => exists = "present"

C1_Witness ==
    /\ argv.a = "deploy" /\ exists = "present"
    /\ pc = "create_change_set"

\* C2: when describe_stacks fails with a service error other than not-found,
\* the stack is not reported absent, the invocation is Failed and no
\* create_stack request is sent
C2_ProbeDistinguishes ==
    DescribeFailedOtherwise =>
        /\ exists # "absent"
        /\ Failed
        /\ Sent({ "create_stack" }) = {}

\* C3: a key that both value sets define has, in the merged result, the
\* value of the shared defaults
C3_CommonWins ==
    pc = "merged" =>
        \A k \in (DOMAIN common_values.m) \cap (DOMAIN custom_values.m) :
            values.m[k] = common_values.m[k]

C3_Witness ==
    /\ pc = "merged"
    /\ \E k \in (DOMAIN common_values.m) \cap (DOMAIN custom_values.m) :
          common_values.m[k] # custom_values.m[k]

\* C4: the keys of the merged result are the keys of either source, and a
\* key of one source only keeps that source's value
C4_UnionOfKeys ==
    pc = "merged" =>
        /\ DOMAIN values.m = (DOMAIN common_values.m) \cup (DOMAIN custom_values.m)
        /\ \A k \in (DOMAIN common_values.m) \ (DOMAIN custom_values.m) :
              values.m[k] = common_values.m[k]
        /\ \A k \in (DOMAIN custom_values.m) \ (DOMAIN common_values.m) :
              values.m[k] = custom_values.m[k]

C4_Witness ==
    /\ pc = "merged"
    /\ (DOMAIN common_values.m) \ (DOMAIN custom_values.m) # {}
    /\ (DOMAIN custom_values.m) \ (DOMAIN common_values.m) # {}

\* C5: with a needed file missing or a values file unparsable, no remote
\* request is ever sent, nothing is rendered or written, and the invocation
\* can only end with exit code 2, for fill and for deploy alike
C5_NoRemoteCallWithoutFiles ==
    (MissingFile \/ Unparsable) =>
        /\ calls = <<>>
        /\ written = <<>>
        /\ ~filled_json.set
        /\ pc \in { "main", "init_variables", "fill_json", "exit" }
        /\ pc = "exit" => exitCode = ExitError

C5_Witness ==
    /\ argv.a = "deploy" /\ init.set /\ Failed
    /\ COMMON_FILE_PATH \notin fs

\* C6: a fill invocation sends no remote request; when it ends with exit
\* code 0 it has written exactly one file, named after the computed stack
\* name with the extension .json, holding the rendered list element by
\* element
C6_FillIsLocal ==
    argv.a = "fill" =>
        /\ calls = <<>>
        /\ Done =>
              /\ Len(written) = 1
              /\ written[1].name = init.stackName \o DotJson
              /\ Len(written[1].content) = 1
              /\ LET text == written[1].content[1]
                 IN  /\ Len(text) = Len(filled_json.list)
                     /\ \A i \in 1..Len(text) :
                           Pairs(text[i]) = Pairs(filled_json.list[i])

C6_Witness ==
    /\ argv.a = "fill" /\ Done
    /\ Len(filled_json.list) > 0

\* C7 as stated: a deploy invocation whose probe reports the stack absent
\* sends exactly one create_stack request, then waits, then reports success,
\* and sends no create_change_set request
C7_AbsentAlwaysCreates ==
    (argv.a = "deploy" /\ exists = "absent" /\ pc = "exit") =>
        /\ Cardinality(Sent({ "create_stack" })) = 1
        /\ Cardinality(Sent({ "wait stack_create_complete" })) = 1
        /\ Printed({ "Stack created!" }) # {}
        /\ Sent({ "create_change_set" }) = {}

\* C7 amended: a deploy invocation whose probe reports the stack absent sends
\* at most one create_stack request and never a create_change_set request;
\* when it ends with exit code 0 it has sent exactly one create_stack
\* request, then one wait for the creation, which returned, and its last
\* output is the success report
C7_AbsentCreatesOnce ==
    (argv.a = "deploy" /\ exists = "absent") =>
        /\ Cardinality(Sent({ "create_stack" })) <= 1
        /\ Sent({ "create_change_set" }) = {}
        /\ Done =>
              /\ Len(calls) = 3
              /\ calls[2].op = "create_stack" /\ calls[2].result = "ok"
              /\ calls[3].op = "wait stack_create_complete"
              /\ calls[3].result = "ok"
              /\ calls[3].StackName = calls[2].StackName
              /\ out[Len(out)] = <<"Stack created!", init.stackName>>

C7_Witness ==
    /\ argv.a = "deploy" /\ exists = "absent" /\ Done

\* C8: a create_stack, create_change_set or wait that failed is the last
\* request of the run and was sent once; the invocation is Failed with exit
\* code 2 and has printed no success report
C8_FailureIsFatal ==
    \A i \in FailedRequests :
        /\ i = Len(calls)
        /\ Failed
        /\ Printed({ "Stack created!", "Change set created!" }) = {}
        /\ Cardinality(Sent({ calls[i].op })) = 1

C8_Witness ==
    \E i \in FailedRequests : calls[i].op = "wait stack_create_complete"

\* C9: no execute_change_set request is ever sent; once a create_change_set
\* request is sent it is the only mutating request of the run; a run that
\* created a change set and ends with exit code 0 ends by reporting the name
\* it sent in that request
C9_ChangeSetNotExecuted ==
    /\ Sent({ "execute_change_set" }) = {}
    /\ Sent({ "create_change_set" }) # {} =>
          Cardinality(Sent(MutatingOps)) = 1
    /\ (exists = "present" /\ Done) =>
          \E i \in Sent({ "create_change_set" }) :
              /\ out[Len(out)] = <<"Change set created!", calls[i].ChangeSetName>>
              /\ calls[i].StackName = init.stackName

C9_Witness ==
    /\ exists = "present" /\ Done
    /\ Sent({ "create_change_set" }) # {}

\* C10: a wait that has not returned is the last request sent: nothing, and
\* so no mutating request, is sent while it is outstanding
C10_NothingSentWhileWaiting ==
    \A i \in Sent(WaitOps) :
        calls[i].result = "pending" =>
            /\ i = Len(calls)
            /\ pc \in { "stack_waiting", "change_set_waiting" }

C10_Witness ==
    /\ pc = "change_set_waiting"
    /\ calls[Len(calls)].result = "pending"

\* what an except clause, or the help option, prints before sys.exit(2)
ErrorTags ==
    { "help", "An error has occurred", "check_file", "FileNotFoundError",
      "fill_json", "merge_vars_file", "save_to_file", "deploy_stack",
      "create_change_set", "create_stack" }

ErrorReported == Len(out) > 0 /\ out[Len(out)][1] \in ErrorTags

\* the work of the chosen action is complete
Succeeded ==
    \/ /\ argv.a = "fill"
       /\ Len(written) = 1
       /\ written[1].content # <<>>
    \/ /\ argv.a = "deploy"
       /\ \E i \in Sent(WaitOps) : calls[i].result = "ok"

\* C11: a finished invocation has exit code 0 or 2: 0 exactly when its work
\* is complete, 2 exactly when it ended by reporting an error, whatever the
\* error; a running one has no exit code
C11_ExitCodes ==
    /\ pc # "exit" => exitCode = -1
    /\ pc = "exit" =>
          /\ exitCode \in { ExitOk, ExitError }
          /\ exitCode = ExitOk <=> Succeeded
          /\ exitCode = ExitError <=> ErrorReported

C11_Witness ==
    /\ Failed
    /\ Printed({ "fill_json" }) # {}

\* a dict with both fields of a parameter record
HasKeyAndValue(d) ==
    /\ \E i \in 1..Len(d) : d[i][1] = "ParameterKey"
    /\ \E i \in 1..Len(d) : d[i][1] = "ParameterValue"

\* C12: every list written by a fill invocation, and every list submitted by
\* a deploy invocation, consists of elements that have both a key and a value
\* field
C12_RecordsOnly ==
    /\ \A w \in 1..Len(written) :
          \A c \in 1..Len(written[w].content) :
              \A i \in 1..Len(written[w].content[c]) :
                  HasKeyAndValue(written[w].content[c][i])
    /\ \A r \in Sent({ "create_stack", "create_change_set" }) :
          \A i \in 1..Len(calls[r].Parameters) :
              HasKeyAndValue(calls[r].Parameters[i])

\* the state of the orchestrator's state machine
MachineState ==
    CASE pc \in { "main", "init_variables", "fill_json" } -> "Start"
      [] pc \in { "deploy_stack", "save_to_file" } -> "Rendered"
      [] pc = "create_change_set" -> "Existing"
      [] pc = "change_set_waiting" -> "ChangeSetPending"
      [] pc = "create_stack" -> "Absent"
      [] pc = "stack_waiting" -> "StackPending"
      [] pc = "exit" /\ exitCode = ExitOk -> "Done"
      [] OTHER -> "Failed"

MachineEdges ==
    { <<"Start", "Start">>, <<"Start", "Rendered">>,
      <<"Rendered", "Existing">>, <<"Existing", "ChangeSetPending">>,
      <<"ChangeSetPending", "Done">>,
      <<"Rendered", "Absent">>, <<"Absent", "StackPending">>,
      <<"StackPending", "Done">> }
        \cup { <<m, "Failed">> :
                  m \in { "Start", "Rendered", "Existing", "ChangeSetPending",
                          "Absent", "StackPending" } }

\* C13: every step of an apply run is an edge of the state machine; the
\* first request is the probe and is sent from Rendered, with the list
\* rendered; a create request is sent only once the probe has returned; Done
\* is entered only from a Pending state, by a wait that returned; a failure
\* in Start leaves no request sent
C13_StateMachine ==
    [][ argv.a = "deploy" =>
          /\ <<MachineState, MachineState'>> \in MachineEdges
          /\ (calls = <<>> /\ calls' # <<>>) =>
                /\ MachineState = "Rendered"
                /\ filled_json.set
                /\ calls'[1].op = "describe_stacks"
          /\ Sent(MutatingOps)' # Sent(MutatingOps) =>
                /\ exists # "unknown"
                /\ calls[1].op = "describe_stacks"
          /\ MachineState' = "Done" =>
                /\ MachineState \in { "ChangeSetPending", "StackPending" }
                /\ calls'[Len(calls')].op \in WaitOps
                /\ calls'[Len(calls')].result = "ok"
          /\ (MachineState = "Start" /\ MachineState' = "Failed") =>
                calls' = <<>>
      ]_vars

C13_Witness ==
    /\ argv.a = "deploy" /\ Done
    /\ Len(calls) = 3
    /\ calls[2].op = "create_change_set"

\* string.ascii_uppercase + string.digits
UppercaseAndDigits ==
    { "A", "B", "C", "D", "E", "F", "G", "H", "I", "J", "K", "L", "M", "N",
      "O", "P", "Q", "R", "S", "T", "U", "V", "W", "X", "Y", "Z",
      "0", "1", "2", "3", "4", "5", "6", "7", "8", "9" }

\* C14: the change-set name of a create_change_set request is the stack name,
\* '-' and six characters that are uppercase letters or digits; no name
\* exists before create_change_set is called; the wait that follows is sent
\* with the same change-set name and stack name
C14_ChangeSetName ==
    /\ pc \in { "main", "init_variables", "fill_json", "deploy_stack",
                "create_change_set" } => change_set_name = <<>>
    /\ \A i \in Sent({ "create_change_set" }) :
          LET r == calls[i]
              n == Len(r.StackName)
          IN  /\ r.StackName = init.stackName
              /\ r.ChangeSetName = change_set_name
              /\ Len(r.ChangeSetName) = n + 1 + 6
              /\ SubSeq(r.ChangeSetName, 1, n) = r.StackName
              /\ r.ChangeSetName[n + 1] = "-"
              /\ \A j \in (n + 2)..Len(r.ChangeSetName) :
                    r.ChangeSetName[j] \in UppercaseAndDigits
              /\ r.result = "ok" => i < Len(calls)
              /\ i < Len(calls) =>
                    /\ calls[i + 1].op = "wait change_set_create_complete"
                    /\ calls[i + 1].ChangeSetName = r.ChangeSetName
                    /\ calls[i + 1].StackName = r.StackName

C14_Witness ==
    /\ pc = "change_set_waiting"
    /\ \E i, j \in 1..Len(change_set_name) :
          change_set_name[i] = "A" /\ change_set_name[j] = "9"

\* the action, the environment or the template argument is missing or wrong
BadArguments ==
    /\ argv.opt = "ok"
    /\ argv.a \notin Actions \/ argv.e = <<>> \/ argv.t = <<>>

\* C15: with the action missing or unsupported, or the environment or the
\* template missing, control never leaves main: no file is checked or read,
\* none is written, no request is sent, and the invocation ends with exit
\* code 2
C15_ArgumentsFirst ==
    BadArguments =>
        /\ pc \in { "main", "exit" }
        /\ ~init.set
        /\ Printed({ "check_file", "FileNotFoundError" }) = {}
        /\ written = <<>>
        /\ calls = <<>>
        /\ pc = "exit" => exitCode = ExitError

C15_Witness ==
    /\ argv.opt = "ok" /\ argv.a = "destroy" /\ Failed
    /\ argv.e # <<>> /\ argv.t # <<>> /\ ~MissingFile

HasSuffix(s, suffix) ==
    /\ Len(s) >= Len(suffix)
    /\ SubSeq(s, Len(s) - Len(suffix) + 1, Len(s)) = suffix

\* <dir>/ of a path <dir>/<base>.<ext>
DirOf(t) == SubSeq(t, 1, Len(t) - Len(LastSegment(t)))

\* <base> of a path <dir>/<base>.yaml or <dir>/<base>.yml
BaseOf(t) ==
    LET f == LastSegment(t)
    IN  IF HasSuffix(f, DotYaml) THEN SubSeq(f, 1, Len(f) - Len(DotYaml))
        ELSE IF HasSuffix(f, DotYml) THEN SubSeq(f, 1, Len(f) - Len(DotYml))
        ELSE f

\* C16: the parameter-template path init_variables derives is <dir>/<base>.json
\* and the stack name is ct-<environment>-base-<base>-stack
C16_DerivedNames ==
    init.set =>
        /\ init.jsonFile = DirOf(argv.t) \o BaseOf(argv.t) \o DotJson
        /\ init.stackName =
              <<"c", "t", "-">> \o argv.e \o <<"-", "b", "a", "s", "e", "-">>
                  \o BaseOf(argv.t) \o <<"-", "s", "t", "a", "c", "k">>

\* how far the invocation has come
Rank(p) ==
    CASE p = "main" -> 0
      [] p = "init_variables" -> 1
      [] p = "fill_json" -> 2
      [] p \in { "save_to_file", "deploy_stack" } -> 3
      [] p \in { "create_change_set", "create_stack" } -> 4
      [] p \in { "change_set_waiting", "stack_waiting" } -> 5
      [] OTHER -> 6

\* C17: every invocation ends, and stays, in Done with exit code 0 or in
\* Failed with exit code 2; every step moves forward, so none returns to an
\* earlier position and none is taken from a terminal state
C17_Terminates ==
    /\ <>[](Done \/ Failed)
    /\ [][Rank(pc') > Rank(pc)]_vars

C17_Witness ==
    /\ exists = "present" /\ Failed
    /\ Len(calls) = 3

\* describe_stacks, or the making of the client, raised something that is
\* not a ClientError
DescribeRaisedOther ==
    \/ Printed({ "deploy_stack" }) # {}
    \/ \E i \in Sent({ "describe_stacks" }) :
          calls[i].result \notin ClientErrors \cup { "ok" }

\* C18: when the probe raises an exception that is not a ClientError, the
\* stack is not reported absent (nor present), the invocation is Failed with
\* exit code 2 and no create request is sent
C18_OtherExceptionsPropagate ==
    DescribeRaisedOther =>
        /\ exists = "unknown"
        /\ Failed
        /\ Sent(MutatingOps) = {}

C18_Witness ==
    /\ Failed
    /\ \E i \in Sent({ "describe_stacks" }) :
          calls[i].result = "EndpointConnectionError"

\* one values file is an empty document, the other a non-empty mapping
EmptyAgainstMapping ==
    \/ /\ common_values.kind = "None"
       /\ custom_values.kind = "dict" /\ DOMAIN custom_values.m # {}
    \/ /\ custom_values.kind = "None"
       /\ common_values.kind = "dict" /\ DOMAIN common_values.m # {}

\* C19: with one values file empty and the other a non-empty mapping,
\* merge_vars_file returns nothing: the invocation can only end Failed with
\* exit code 2, with no file written and no request sent
C19_EmptyDocumentFails ==
    EmptyAgainstMapping =>
        /\ pc \in { "merge_vars_file", "exit" }
        /\ values = NoDoc
        /\ written = <<>>
        /\ calls = <<>>
        /\ pc = "exit" => exitCode = ExitError

C19_Witness ==
    /\ Failed
    /\ common_values.kind = "None"
    /\ custom_values.kind = "dict" /\ DOMAIN custom_values.m # {}

====
